---- MODULE Spec2Model ----
(***************************************************************************)
(* Model of src/delayed_clear/__init__.py: the Counter whose reaching 0    *)
(* can be awaited, and DelayedClear, the clearable value wrapper built on  *)
(* it.                                                                     *)
(*                                                                         *)
(* Scheduling: the classes are built on asyncio.Event, so the callers are  *)
(* asyncio tasks of one event loop.  A task runs without interruption      *)
(* between two awaits, hence every synchronous method, and the entry and   *)
(* the exit of the `get` / `bump` context managers, is one atomic action.  *)
(* The body of a `with` block may await, so other tasks run while a scope  *)
(* is open.  A task waiting on an Event is first woken (its future is      *)
(* completed by Event.set) and resumes in a later step of the loop.        *)
(***************************************************************************)
EXTENDS Integers, FiniteSets

\* ---------------------------------------------------------------- bounds
NTasks == 2
MaxCount == 2
MaxTime == 2

Tasks == 1..NTasks
\* Caller 0 is code of the event loop that is no waiter and no holder (the
\* code that started the tasks, a callback): it opens no scope and awaits no
\* event, so it can call at any time.  A synchronous method does the same
\* whoever calls it, so the calls of caller 0 stand for those of every task
\* that is running as well.
Callers == {0}
Values == {"v1", "v2"}
Absent == "absent"          \* the instance has no attribute `_value`

VARIABLES
    value,          \* DelayedClear._value, or Absent when the attribute is missing
    value_set,      \* DelayedClear._value_set (asyncio.Event flag)
    use_counter,    \* the Counter: [counter |-> Counter._counter, zero |-> Counter._zero flag]
    last_release,   \* DelayedClear._last_release
    now,            \* the clock read by datetime.now()
    pc,             \* where each task is
    held,           \* the value a task was yielded by `get`, Absent outside a scope
    last,           \* the latest call: its name, what it returned or raised, and
                    \* the count and the value it found (a history variable)
    constructed     \* (history variable) values the factory has returned since the slot was last ABSENT

vars == <<value, value_set, use_counter, last_release, now, pc, held, last, constructed>>

\* The fields' values.  The count is bounded below by the code alone.
TypeOK ==
    /\ value \in Values \cup {Absent}
    /\ value_set \in BOOLEAN
    /\ use_counter.counter \in Int /\ use_counter.zero \in BOOLEAN
    /\ last_release \in 0..now
    /\ pc \in [Tasks -> {"idle", "in_bump", "in_get", "until_zero", "until_zero_woken",
                         "until_set", "until_set_woken"}]
    /\ held \in [Tasks -> Values \cup {Absent}]
    /\ constructed \in Nat

\* ---------------------------------------------------------------- Counter
CounterNew == [counter |-> 0, zero |-> TRUE]

\* increment() without `self._zero.clear()`.
increment_keeps_event(c) == [counter |-> c.counter + 1, zero |-> c.zero]

increment(c) == [counter |-> c.counter + 1, zero |-> FALSE]

\* decrement() without `self._zero.set()`.
decrement_never_sets(c) ==
    [counter |-> IF c.counter > 0 THEN c.counter - 1 ELSE c.counter, zero |-> c.zero]

\* decrement() without the `if self._counter > 0` guard.
decrement_unguarded(c) ==
    LET n == c.counter - 1
    IN  [counter |-> n, zero |-> IF n = 0 THEN TRUE ELSE c.zero]

decrement(c) ==
    LET n == IF c.counter > 0 THEN c.counter - 1 ELSE c.counter
    IN  [counter |-> n, zero |-> IF n = 0 THEN TRUE ELSE c.zero]

\* clear() without `self._zero.set()`.
counter_clear_keeps_event(c) == [counter |-> 0, zero |-> c.zero]

counter_clear(c) == [counter |-> 0, zero |-> TRUE]

is_zero(c) == c.counter = 0

\* The generator of `bump` resumed after its yield: normally it runs on to
\* decrement(); an exception of the body is thrown in at the yield, which no
\* try/finally encloses, so it leaves the generator at once.
bump_exit(c, raised) == IF raised THEN c ELSE decrement(c)

\* asyncio.Event.set() called by an operation that took the flag from `before`
\* to `after`: the futures of all tasks waiting on the event are completed.
Woken(w) == IF w = "until_zero" THEN "until_zero_woken" ELSE "until_set_woken"

EventWake(p, w, before, after) ==
    [t \in Tasks |-> IF ~before /\ after /\ p[t] = w THEN Woken(w) ELSE p[t]]

\* The record of a call: `seq` alternates, so that every call changes `last`;
\* `arg` is the value given to set(), or what the factory did when get()
\* called it; `secs` is the result of since_release().
Call(op, ret) ==
    [op |-> op, ret |-> ret, pre |-> use_counter.counter, had |-> value, secs |-> 0,
     arg |-> "None", seq |-> 1 - last.seq]

\* ---------------------------------------------------------------- DelayedClear
Raises == "raise"           \* a factory (`or_set`) that raises instead of returning

\* get() with the factory called inside the bump scope: the count is already
\* incremented when the factory raises, and bump does not undo it.
get_enter_bump_first(val, c, f) ==
    IF val = Absent /\ f = Raises
      THEN [value |-> val, c |-> increment(c), yield |-> "FactoryError", made |-> 0]
      ELSE LET v == IF val = Absent THEN f ELSE val
           IN  [value |-> v, c |-> increment(c), yield |-> v,
                made |-> IF val = Absent THEN 1 ELSE 0]

\* get() yielding the factory's result without storing it with set().
get_enter_no_store(val, c, f) ==
    IF val = Absent /\ f = Raises
      THEN [value |-> val, c |-> c, yield |-> "FactoryError", made |-> 0]
      ELSE [value |-> val, c |-> increment(c), yield |-> IF val = Absent THEN f ELSE val,
            made |-> IF val = Absent THEN 1 ELSE 0]

\* get() without the `hasattr` check: the factory is called on every entry.
get_enter_always_factory(val, c, f) ==
    IF f = Raises
      THEN [value |-> val, c |-> c, yield |-> "FactoryError", made |-> 0]
      ELSE [value |-> f, c |-> increment(c), yield |-> f, made |-> 1]

\* `get` up to its yield, for a factory that returns f or raises: the value
\* stored afterwards, the counter afterwards, and what the caller gets (the
\* yielded value, or the factory's exception before anything else happened).
get_enter(val, c, f) ==
    IF val = Absent /\ f = Raises
      THEN [value |-> val, c |-> c, yield |-> "FactoryError", made |-> 0]
      ELSE LET v == IF val = Absent THEN f ELSE val
           IN  [value |-> v, c |-> increment(c), yield |-> v,
                made |-> IF val = Absent THEN 1 ELSE 0]

\* set() without `self._value_set.set()`.
set_forgets_event(val, vs, v) == [value |-> v, value_set |-> vs]

\* set() that keeps a value that is already stored.
set_if_absent(val, vs, v) ==
    [value |-> IF val = Absent THEN v ELSE val, value_set |-> TRUE]

\* `set`: the value and the event flag afterwards.
set(val, vs, v) == [value |-> v, value_set |-> TRUE]

\* get() whose `finally` clause lacks the `if self._use_counter.is_zero()`.
get_exit_always_stamps(c, lr, clock, raised) ==
    [c |-> bump_exit(c, raised), last_release |-> clock]

\* `get` after its yield: bump's exit, then the `finally` clause.
get_exit(c, lr, clock, raised) ==
    LET c2 == bump_exit(c, raised)
    IN  [c |-> c2, last_release |-> IF is_zero(c2) THEN clock ELSE lr]

\* clear() without the `if self.unused()` check.
clear_unchecked(val, vs, c) ==
    [value |-> Absent, value_set |-> IF val # Absent THEN FALSE ELSE vs, ret |-> "True"]

\* clear() without `self._value_set.clear()`.
clear_keeps_event(val, vs, c) ==
    IF is_zero(c)
      THEN [value |-> Absent, value_set |-> vs, ret |-> "True"]
      ELSE [value |-> val, value_set |-> vs, ret |-> "False"]

\* `clear`: the value, the event flag and the result.
clear(val, vs, c) ==
    IF is_zero(c)
      THEN [value |-> Absent, value_set |-> IF val # Absent THEN FALSE ELSE vs,
            ret |-> "True"]
      ELSE [value |-> val, value_set |-> vs, ret |-> "False"]

\* ---------------------------------------------------------------- initial state
Init ==
    /\ value \in Values \cup {Absent}
    /\ value_set = (value # Absent)
    /\ use_counter = CounterNew
    /\ now = 0
    /\ last_release = now
    /\ pc = [t \in Tasks |-> "idle"]
    /\ held = [t \in Tasks |-> Absent]
    /\ last = [op |-> "init", ret |-> "None", pre |-> 0, had |-> Absent, secs |-> 0,
               arg |-> "None", seq |-> 0]
    /\ constructed = 0

CounterInit ==
    /\ Init
    /\ value = Absent

\* ---------------------------------------------------------------- a Counter on its own
Running(t) == IF t \in Tasks THEN pc[t] \in {"idle", "in_bump", "in_get"} ELSE TRUE

Increment(t) ==
    /\ Running(t)
    /\ use_counter.counter < MaxCount
    /\ use_counter' = increment(use_counter)
    /\ last' = Call("increment", "None")
    /\ UNCHANGED <<value, value_set, last_release, now, pc, held, constructed>>

Decrement(t) ==
    /\ Running(t)
    /\ use_counter' = decrement(use_counter)
    /\ pc' = EventWake(pc, "until_zero", use_counter.zero, use_counter'.zero)
    /\ last' = Call("decrement", "None")
    /\ UNCHANGED <<value, value_set, last_release, now, held, constructed>>

BumpEnter(t) ==
    /\ pc[t] = "idle"
    /\ use_counter.counter < MaxCount
    /\ use_counter' = increment(use_counter)
    /\ pc' = [pc EXCEPT ![t] = "in_bump"]
    /\ last' = Call("bump_enter", "None")
    /\ UNCHANGED <<value, value_set, last_release, now, held, constructed>>

BumpExit(t, raised) ==
    /\ pc[t] = "in_bump"
    /\ use_counter' = bump_exit(use_counter, raised)
    /\ pc' = EventWake([pc EXCEPT ![t] = "idle"], "until_zero",
                       use_counter.zero, use_counter'.zero)
    /\ last' = Call("bump_exit", IF raised THEN "BodyError" ELSE "None")
    /\ UNCHANGED <<value, value_set, last_release, now, held, constructed>>

CounterClear(t) ==
    /\ Running(t)
    /\ use_counter' = counter_clear(use_counter)
    /\ pc' = EventWake(pc, "until_zero", use_counter.zero, use_counter'.zero)
    /\ last' = Call("counter_clear", "None")
    /\ UNCHANGED <<value, value_set, last_release, now, held, constructed>>

IsZero(t) ==
    /\ Running(t)
    /\ last' = Call("is_zero", IF is_zero(use_counter) THEN "True" ELSE "False")
    /\ UNCHANGED <<value, value_set, use_counter, last_release, now, pc, held, constructed>>

\* Event.wait(): returns at once when the flag is set, else the task is
\* suspended on a new future.
UntilZero(t) ==
    /\ pc[t] = "idle"
    /\ IF use_counter.zero
         THEN /\ last' = Call("until_zero", "None")
              /\ pc' = pc
         ELSE /\ pc' = [pc EXCEPT ![t] = "until_zero"]
              /\ last' = Call("until_zero", "suspended")
    /\ UNCHANGED <<value, value_set, use_counter, last_release, now, held, constructed>>

ResumeZero(t) ==
    /\ pc[t] = "until_zero_woken"
    /\ pc' = [pc EXCEPT ![t] = "idle"]
    /\ last' = Call("until_zero", "None")
    /\ UNCHANGED <<value, value_set, use_counter, last_release, now, held, constructed>>

CounterNext ==
    \/ \E t \in Callers:
          \/ Increment(t)
          \/ Decrement(t)
          \/ CounterClear(t)
          \/ IsZero(t)
    \/ \E t \in Tasks:
          \/ BumpEnter(t)
          \/ BumpExit(t, FALSE)
          \/ BumpExit(t, TRUE)
          \/ UntilZero(t)
          \/ ResumeZero(t)

CounterSpec == CounterInit /\ [][CounterNext]_vars

\* ---------------------------------------------------------------- DelayedClear's operations
Get(t, f) ==
    /\ pc[t] = "idle"
    /\ use_counter.counter < MaxCount
    /\ LET r == get_enter(value, use_counter, f)
       IN  /\ value' = r.value
           /\ value_set' = (IF r.value # value
                              THEN set(value, value_set, r.value).value_set
                              ELSE value_set)
           /\ use_counter' = r.c
           /\ constructed' = constructed + r.made
           /\ held' = [held EXCEPT ![t] = IF r.yield \in Values THEN r.yield ELSE Absent]
           /\ pc' = EventWake([pc EXCEPT ![t] = IF r.yield \in Values THEN "in_get" ELSE "idle"],
                              "until_set", value_set, value_set')
           /\ last' = [Call("get", r.yield) EXCEPT
                         !.arg = IF r.made = 1 THEN f
                                 ELSE IF r.yield = "FactoryError" THEN Raises
                                 ELSE "None"]
    /\ UNCHANGED <<last_release, now>>

GetExit(t, raised) ==
    /\ pc[t] = "in_get"
    /\ LET r == get_exit(use_counter, last_release, now, raised)
       IN  /\ use_counter' = r.c
           /\ last_release' = r.last_release
    /\ pc' = EventWake([pc EXCEPT ![t] = "idle"], "until_zero",
                       use_counter.zero, use_counter'.zero)
    /\ held' = [held EXCEPT ![t] = Absent]
    /\ last' = Call("get_exit", IF raised THEN "BodyError" ELSE "None")
    /\ UNCHANGED <<value, value_set, now, constructed>>

Set(t, v) ==
    /\ Running(t)
    /\ LET r == set(value, value_set, v)
       IN  /\ value' = r.value
           /\ value_set' = r.value_set
    /\ pc' = EventWake(pc, "until_set", value_set, value_set')
    /\ last' = [Call("set", "None") EXCEPT !.arg = v]
    /\ UNCHANGED <<use_counter, last_release, now, held, constructed>>

Clear(t) ==
    /\ Running(t)
    /\ LET r == clear(value, value_set, use_counter)
       IN  /\ value' = r.value
           /\ value_set' = r.value_set
           /\ constructed' = (IF r.ret = "True" THEN 0 ELSE constructed)
           /\ last' = Call("clear", r.ret)
    /\ UNCHANGED <<use_counter, last_release, now, pc, held>>

Unused(t) ==
    /\ Running(t)
    /\ last' = Call("unused", IF is_zero(use_counter) THEN "True" ELSE "False")
    /\ UNCHANGED <<value, value_set, use_counter, last_release, now, pc, held, constructed>>

SinceRelease(t) ==
    /\ Running(t)
    /\ last' = [Call("since_release", "None") EXCEPT !.secs = now - last_release]
    /\ UNCHANGED <<value, value_set, use_counter, last_release, now, pc, held, constructed>>

UntilSet(t) ==
    /\ pc[t] = "idle"
    /\ IF value_set
         THEN /\ last' = Call("until_set", "None")
              /\ pc' = pc
         ELSE /\ pc' = [pc EXCEPT ![t] = "until_set"]
              /\ last' = Call("until_set", "suspended")
    /\ UNCHANGED <<value, value_set, use_counter, last_release, now, held, constructed>>

ResumeSet(t) ==
    /\ pc[t] = "until_set_woken"
    /\ pc' = [pc EXCEPT ![t] = "idle"]
    /\ last' = Call("until_set", "None")
    /\ UNCHANGED <<value, value_set, use_counter, last_release, now, held, constructed>>

\* `until_unused` awaits Counter.until_zero of the use counter.
UntilUnused(t) == UntilZero(t)

Tick ==
    /\ now < MaxTime
    /\ now' = now + 1
    /\ UNCHANGED <<value, value_set, use_counter, last_release, pc, held, last, constructed>>

Next ==
    \/ \E t \in Callers:
          \/ \E v \in Values: Set(t, v)
          \/ Clear(t)
          \/ Unused(t)
          \/ SinceRelease(t)
    \/ \E t \in Tasks:
          \/ \E f \in Values \cup {Raises}: Get(t, f)
          \/ GetExit(t, FALSE)
          \/ GetExit(t, TRUE)
          \/ UntilSet(t)
          \/ ResumeSet(t)
          \/ UntilUnused(t)
          \/ ResumeZero(t)
    \/ Tick

Spec == Init /\ [][Next]_vars

\* The event loop runs every task whose awaited future has been completed:
\* a waiter of until_set() that was woken does resume.  Nothing makes a
\* holder leave its scope or a caller call again.
FairSpec ==
    /\ Spec
    /\ \A t \in Tasks: WF_vars(ResumeSet(t))

\* ---------------------------------------------------------------- properties
\* A step in which `op` is called.
Called(op) == last' # last /\ last'.op = op

OpenScopes == {t \in Tasks: pc[t] = "in_get"}

\* C1: clear() called while the usage count is above 0 returns False and
\* changes nothing: the value stays present and the same, the value-present
\* event stays set, the usage count is unchanged.
C1_ClearInUseRejected ==
    [][(Called("clear") /\ use_counter.counter > 0)
        => /\ last'.ret = "False"
           /\ value \in Values /\ value' = value
           /\ value_set /\ value_set'
           /\ use_counter' = use_counter]_vars

C1_Witness ==
    /\ last.op = "clear" /\ last.ret = "False" /\ last.pre > 0
    /\ OpenScopes # {}
    /\ value \in Values /\ value_set

\* C2: clear() called while unused() is true returns True and leaves the slot
\* ABSENT with the value-present event unset, whether or not a value was
\* present; a clear() that directly follows such a clear() returns True again
\* and changes nothing.
C2_ClearUnused ==
    [][/\ (Called("clear") /\ use_counter.counter = 0)
          => /\ last'.ret = "True"
             /\ value' = Absent /\ ~value_set'
             /\ use_counter' = use_counter
       /\ (Called("clear") /\ last.op = "clear" /\ last.ret = "True")
          => /\ last'.ret = "True"
             /\ UNCHANGED <<value, value_set, use_counter, last_release>>]_vars

\* A clear() of an already ABSENT slot, which once held a value that was used
\* and released.
C2_Witness ==
    /\ last.op = "clear" /\ last.ret = "True" /\ last.had = Absent
    /\ value = Absent /\ ~value_set
    /\ last_release > 0

\* C3: on every exit of a bump scope, also when the body raised or was
\* cancelled, decrement() runs: the count goes down by one (or stays at 0).
C3_BumpExitDecrements ==
    [][Called("bump_exit")
        => use_counter'.counter =
             (IF use_counter.counter > 0 THEN use_counter.counter - 1 ELSE 0)]_vars

\* C4: the usage count equals the number of get scopes that are open.
C4_CountIsOpenScopes == use_counter.counter = Cardinality(OpenScopes)

\* C5: once every get scope has exited, however it exited, unused() is true
\* and no task is still suspended in until_unused().
C5_AllExitedThenUnused ==
    (OpenScopes = {})
        => /\ is_zero(use_counter)
           /\ \A t \in Tasks: pc[t] # "until_zero"

\* C6: the factory constructs at most one value while the slot stays
\* PRESENT, and a get that finds the slot PRESENT does not call it: every
\* caller is yielded the value that is stored.
C6_FactoryAtMostOnce ==
    [][/\ constructed' <= 1
       /\ (Called("get") /\ last'.ret \in Values)
          => /\ last'.ret = value'
             /\ value # Absent => (value' = value /\ constructed' = constructed)
             /\ \E t \in Tasks: pc[t] = "idle" /\ pc'[t] = "in_get"
                                 /\ held'[t] = value']_vars

\* All tasks hold the one value the factory made.
C6_Witness ==
    /\ OpenScopes = Tasks
    /\ constructed = 1
    /\ last.op = "get" /\ last.had # Absent
    /\ \A t \in Tasks: held[t] = value

\* C7: a get whose factory raises hands the failure to the caller and leaves
\* the slot ABSENT, the event unset, the usage count and last_released_at as
\* they were, and opens no scope.
C7_FactoryFailure ==
    [][(Called("get") /\ last'.ret = "FactoryError")
        => /\ value = Absent /\ value' = Absent
           /\ ~value_set'
           /\ use_counter' = use_counter
           /\ last_release' = last_release
           /\ pc' = pc /\ held' = held]_vars

C7_Witness ==
    /\ last.op = "get" /\ last.ret = "FactoryError"
    /\ value = Absent /\ ~value_set
    /\ use_counter.counter = last.pre
    /\ last_release > 0

\* C8: whenever the usage count is above 0 the slot is PRESENT, and every
\* task inside a get scope holds a value while a value is stored.
C8_InUseImpliesPresent ==
    /\ use_counter.counter > 0 => value \in Values
    /\ \A t \in OpenScopes: held[t] \in Values /\ value \in Values

\* Two holders, one of them handed a value that set() has replaced since.
C8_Witness ==
    /\ Cardinality(OpenScopes) >= 2
    /\ \E t \in OpenScopes: held[t] # value
    /\ value \in Values

\* C9: the zero event is set if and only if the count is 0.
C9_ZeroIffCountZero == use_counter.zero <=> (use_counter.counter = 0)

\* The count came back to 0 from above, with a bump scope still open.
C9_Witness ==
    /\ last.op \in {"decrement", "bump_exit"} /\ last.pre > 0
    /\ use_counter.counter = 0 /\ use_counter.zero
    /\ \E t \in Tasks: pc[t] = "in_bump"

\* C10: the count is never negative, is_zero() answers whether the count is
\* 0, and decrement() at 0 leaves the count at 0 and the zero event set.
C10_NeverNegative ==
    [][/\ use_counter'.counter >= 0
       /\ Called("is_zero") => (last'.ret = "True" <=> use_counter'.counter = 0)
       /\ (Called("decrement") /\ use_counter.counter = 0)
          => /\ use_counter' = use_counter
             /\ use_counter'.zero
             /\ last'.ret = "None"]_vars

C10_Witness ==
    /\ last.op = "decrement" /\ last.pre = 0
    /\ use_counter.counter = 0 /\ use_counter.zero

\* C11: the value-present event is set if and only if a value is stored.
C11_EventIffPresent == value_set <=> (value \in Values)

\* A slot that was cleared and has been given a value again by set().
C11_Witness ==
    /\ last.op = "set" /\ last.had = Absent
    /\ value \in Values /\ value_set
    /\ last_release > 0

\* What a step does to a task with respect to Counter.until_zero().
Suspends(t) == pc[t] = "idle" /\ pc'[t] = "until_zero"
Wakes(t) == pc[t] = "until_zero" /\ pc'[t] = "until_zero_woken"
Returns(t) == pc[t] = "until_zero_woken" /\ pc'[t] = "idle"

\* C12: until_zero() called while the count is above 0 suspends the caller,
\* and called while the count is 0 returns at once; a suspended task stays
\* suspended while the count is above 0 and is released only by the step that
\* brings the count to 0 (a decrement or clear), which releases every
\* suspended task together; a task returns only after it was released.
C12_UntilZero ==
    [][/\ (Called("until_zero") /\ ~(\E t \in Tasks: Returns(t)))
          => IF use_counter.counter > 0
               THEN last'.ret = "suspended" /\ \E t \in Tasks: Suspends(t)
               ELSE last'.ret = "None" /\ pc' = pc
       /\ \A t \in Tasks:
            /\ pc'[t] = "until_zero" => use_counter'.counter > 0
            /\ pc[t] = "until_zero" => pc'[t] \in {"until_zero", "until_zero_woken"}
            /\ Wakes(t) => (use_counter.counter > 0 /\ use_counter'.counter = 0)
            /\ (pc[t] = "until_zero" /\ use_counter'.counter = 0) => Wakes(t)
            /\ pc'[t] = "until_zero_woken" => (Wakes(t) \/ pc[t] = "until_zero_woken")]_vars

\* Every task was suspended and the last of two decrements released them all.
C12_Witness ==
    /\ \A t \in Tasks: pc[t] = "until_zero_woken"
    /\ last.op = "decrement" /\ last.pre = 1
    /\ use_counter.counter = 0 /\ use_counter.zero

\* C13: set(v) stores v and sets the value-present event in any state, and
\* leaves the usage count, last_released_at and the values already yielded
\* to open holders as they were; a get that follows it yields v and does not
\* call the factory.
C13_SetFrame ==
    [][/\ Called("set")
          => /\ value' = last'.arg /\ value' \in Values
             /\ value_set'
             /\ use_counter' = use_counter
             /\ last_release' = last_release
             /\ held' = held
       /\ (Called("get") /\ last.op = "set")
          => /\ last'.ret = last.arg
             /\ value' = last.arg
             /\ constructed' = constructed]_vars

\* A holder still has the value that a set() replaced, and the get after
\* that set() was yielded the new one.
C13_Witness ==
    /\ last.op = "get" /\ last.ret = value
    /\ \E t \in OpenScopes: held[t] = value
    /\ \E t \in OpenScopes: held[t] # value

\* C14: a clear() that returns True leaves the slot as a new empty slot is
\* (no value, event unset, count 0 and zero event set); a get on an ABSENT
\* slot whose factory returns calls it once, stores and yields its result; a
\* get on a PRESENT slot does not call it: one construction per cycle of
\* get, exit and clear, however many cycles follow one another.
C14_Reusable ==
    [][/\ (Called("clear") /\ last'.ret = "True")
          => /\ value' = Absent /\ ~value_set'
             /\ use_counter' = CounterNew
             /\ constructed' = 0
       /\ (Called("get") /\ value = Absent /\ last'.ret # "FactoryError")
          => /\ last'.arg \in Values
             /\ last'.ret = last'.arg /\ value' = last'.arg /\ value_set'
             /\ constructed = 0 /\ constructed' = 1
       /\ (Called("get") /\ value # Absent)
          => /\ last'.arg = "None"
             /\ constructed' = constructed]_vars

\* A get that had to construct the value again: the slot was used and
\* released before, then cleared.
C14_Witness ==
    /\ last.op = "get" /\ last.had = Absent /\ last.arg = value
    /\ constructed = 1
    /\ last_release > 0
    /\ use_counter.counter = 1

\* C15: last_released_at changes only in a get-scope exit that takes the
\* usage count from above 0 to 0, and then becomes the current time; no other
\* step changes it.  since_release() returns the time since that release,
\* whether or not the value is in use, and changes nothing.
C15_LastReleaseFrame ==
    [][/\ last_release' # last_release
          => /\ Called("get_exit")
             /\ use_counter.counter > 0 /\ use_counter'.counter = 0
             /\ last_release' = now
       /\ Called("since_release")
          => /\ last'.secs = now - last_release
             /\ UNCHANGED <<value, value_set, use_counter, last_release, pc, held>>]_vars

\* since_release() asked while the value is in use, some time after the
\* latest release to zero.
C15_Witness ==
    /\ last.op = "since_release" /\ last.secs > 0
    /\ last.secs = now - last_release
    /\ last_release > 0
    /\ OpenScopes # {}

\* C16: while get scopes are open unused() is false; an exit that leaves a
\* scope open does not change last_released_at; the exit of the last of
\* several overlapping scopes (the call before it was the exit of another
\* one) makes unused() true and sets last_released_at to the current time.
C16_OverlapOneRelease ==
    [][/\ OpenScopes' # {} => ~is_zero(use_counter')
       /\ (Called("get_exit") /\ OpenScopes' # {}) => last_release' = last_release
       /\ (Called("get_exit") /\ last.op = "get_exit" /\ OpenScopes' = {})
          => /\ is_zero(use_counter')
             /\ last_release' = now]_vars

\* C17: get calls the factory if and only if the slot is ABSENT at entry; a
\* get on a PRESENT slot yields the stored value and leaves it stored, also
\* when it follows a clear() that was rejected because a scope is open.
C17_FactoryIffAbsent ==
    [][Called("get")
        => /\ (last'.arg # "None") <=> (value = Absent)
           /\ value # Absent
              => /\ last'.ret = value /\ value' = value
                 /\ constructed' = constructed
           /\ (last.op = "clear" /\ last.ret = "False")
              => /\ value # Absent
                 /\ last'.ret = last.had /\ last'.arg = "None"]_vars

\* A second holder entered while the first scope was open and was yielded
\* the stored value, the one the first holder has.
C17_Witness ==
    /\ last.op = "get" /\ last.pre = 1 /\ last.arg = "None"
    /\ last.ret = last.had /\ last.ret = value
    /\ OpenScopes = Tasks
    /\ \A t \in Tasks: held[t] = value

\* What a step does to a task with respect to until_set().
SuspendsSet(t) == pc[t] = "idle" /\ pc'[t] = "until_set"
WakesSet(t) == pc[t] = "until_set" /\ pc'[t] = "until_set_woken"
ReturnsSet(t) == pc[t] = "until_set_woken" /\ pc'[t] = "idle"

\* C18: until_set() suspends the caller when the slot is ABSENT and returns
\* at once when it is PRESENT, also after a clear(); a task stays suspended
\* only while the slot is ABSENT; the step that stores a value (set, or a get
\* that calls the factory) releases every suspended task, and every released
\* task eventually resumes.
C18_UntilSet ==
    /\ [][/\ (Called("until_set") /\ ~(\E t \in Tasks: ReturnsSet(t)))
              => IF value = Absent
                   THEN last'.ret = "suspended" /\ \E t \in Tasks: SuspendsSet(t)
                   ELSE last'.ret = "None" /\ pc' = pc
           /\ \A t \in Tasks:
                /\ pc'[t] = "until_set" => value' = Absent
                /\ pc[t] = "until_set" => pc'[t] \in {"until_set", "until_set_woken"}
                /\ WakesSet(t) => (value = Absent /\ value' \in Values
                                   /\ last'.op \in {"set", "get"})
                /\ (pc[t] = "until_set" /\ value' \in Values) => WakesSet(t)
                /\ pc'[t] = "until_set_woken"
                     => (WakesSet(t) \/ pc[t] = "until_set_woken")]_vars
    /\ \A t \in Tasks: (pc[t] = "until_set_woken") ~> (pc[t] = "idle")

\* Every task waited on a slot that had been used and cleared, and one set()
\* released them all.
C18_Witness ==
    /\ \A t \in Tasks: pc[t] = "until_set_woken"
    /\ last.op = "set" /\ last.had = Absent
    /\ last_release > 0

\* C19: Counter.clear() takes the count to 0 and sets the zero event from
\* any count and releases every task suspended in until_zero(); the exit of
\* a bump scope that finds the count at 0, as the scopes open at a clear() do,
\* leaves the count at 0 and the event set; the count is never negative.
C19_CounterClear ==
    [][/\ Called("counter_clear")
          => /\ use_counter' = CounterNew
             /\ \A t \in Tasks: pc[t] = "until_zero" => Wakes(t)
       /\ (Called("bump_exit") /\ use_counter.counter = 0)
          => use_counter' = CounterNew
       /\ (Called("bump_exit") /\ last.op = "counter_clear")
          => use_counter.counter = 0
       /\ use_counter'.counter >= 0]_vars

\* A bump scope was left with the count already at 0 while another scope is
\* still open.
C19_Witness ==
    /\ last.op = "bump_exit" /\ last.ret = "None" /\ last.pre = 0
    /\ use_counter = CounterNew
    /\ \E t \in Tasks: pc[t] = "in_bump"

\* C20: when a task that was suspended in until_unused() resumes, the usage
\* count is 0, and a clear() that is the next call after until_unused() has
\* returned gives True.
C20_ResumeAtZero ==
    [][/\ \A t \in Tasks: Returns(t) => is_zero(use_counter')
       /\ (Called("clear") /\ last.op = "until_zero" /\ last.ret = "None")
          => last'.ret = "True"]_vars

====
